---------------------------- MODULE Spec2Model ----------------------------
(***************************************************************************)
(* Model of scripts/models/auto-update-models.py: the candidate filter,    *)
(* the GGUF file resolver, the local-name normalisation, the config and    *)
(* alias writers and the run of main().                                    *)
(*                                                                         *)
(* A Python str is a sequence of one-character strings, so that substring  *)
(* tests, split, replace, strip and sorted() are computed character by     *)
(* character as Python computes them.  None is the empty sequence <<>> and *)
(* a present value x is <<x>>.                                             *)
(***************************************************************************)
EXTENDS Integers, Sequences, FiniteSets, TLC

VARIABLES pc, args, hub, models, i, downloaded_model_names, config, store,
          effects, fn_in, fn_out

vars == <<pc, args, hub, models, i, downloaded_model_names, config, store,
          effects, fn_in, fn_out>>

---------------------------------------------------------------------------
(* Bounds of the model.                                                    *)

MaxHub == 2

MaxNumModels == 2

MaxFiles == 3

MaxTokens == 3

---------------------------------------------------------------------------
(* Characters and the str methods the script uses.                         *)

UpperChars == <<"A","B","C","D","E","F","G","H","I","J","K","L","M",
                "N","O","P","Q","R","S","T","U","V","W","X","Y","Z">>

LowerChars == <<"a","b","c","d","e","f","g","h","i","j","k","l","m",
                "n","o","p","q","r","s","t","u","v","w","x","y","z">>

DigitChars == <<"0","1","2","3","4","5","6","7","8","9">>

\* The characters of the model in code-point order (what sorted() compares).
CodePointOrder == <<"\n", " ", "-", ".", "/">> \o DigitChars \o <<":">>
                  \o UpperChars \o <<"_">> \o LowerChars

Range(s) == { s[k] : k \in DOMAIN s }

CodePoint(c) == CHOOSE k \in DOMAIN CodePointOrder : CodePointOrder[k] = c

\* str.lower() on one character.
LowerChar(c) ==
    IF \E k \in DOMAIN UpperChars : UpperChars[k] = c
    THEN LowerChars[CHOOSE k \in DOMAIN UpperChars : UpperChars[k] = c]
    ELSE c

\* str.lower()
RECURSIVE Lower(_)
Lower(s) == IF s = <<>> THEN <<>> ELSE <<LowerChar(s[1])>> \o Lower(Tail(s))

\* str.isalnum() on one character.
IsAlnum(c) == c \in Range(UpperChars) \cup Range(LowerChars) \cup Range(DigitChars)

\* s[k:] with k counted from 1.
From(s, k) == SubSeq(s, k, Len(s))

\* s.startswith(p)
StartsWith(s, p) == Len(p) <= Len(s) /\ SubSeq(s, 1, Len(p)) = p

\* s.endswith(p)
EndsWith(s, p) == Len(p) <= Len(s) /\ SubSeq(s, Len(s) - Len(p) + 1, Len(s)) = p

\* p in s
Contains(s, p) == \E k \in 1..(Len(s) - Len(p) + 1) : SubSeq(s, k, k + Len(p) - 1) = p

\* any(x in s for x in patterns)
ContainsAny(s, patterns) == \E k \in DOMAIN patterns : Contains(s, patterns[k])

\* s.split(sep)[-1]: the text after the last separator a left-to-right scan finds.
RECURSIVE SplitLast(_, _)
SplitLast(s, sep) ==
    IF ~Contains(s, sep) THEN s
    ELSE LET k == CHOOSE j \in 1..(Len(s) - Len(sep) + 1) :
                      /\ SubSeq(s, j, j + Len(sep) - 1) = sep
                      /\ \A h \in 1..(j - 1) : SubSeq(s, h, h + Len(sep) - 1) # sep
         IN SplitLast(From(s, k + Len(sep)), sep)

\* s.replace(old, new): every occurrence a left-to-right scan finds, old non-empty.
RECURSIVE Replace(_, _, _)
Replace(s, old, new) ==
    IF s = <<>> THEN <<>>
    ELSE IF StartsWith(s, old) THEN new \o Replace(From(s, Len(old) + 1), old, new)
    ELSE <<s[1]>> \o Replace(Tail(s), old, new)

\* s.lstrip(chars)
RECURSIVE LStrip(_, _)
LStrip(s, chars) ==
    IF s # <<>> /\ s[1] \in chars THEN LStrip(Tail(s), chars) ELSE s

\* s.rstrip(chars)
RECURSIVE RStrip(_, _)
RStrip(s, chars) ==
    IF s # <<>> /\ s[Len(s)] \in chars THEN RStrip(SubSeq(s, 1, Len(s) - 1), chars) ELSE s

\* s.strip(chars)
Strip(s, chars) == RStrip(LStrip(s, chars), chars)

\* a < b for str: lexicographic by code point.
RECURSIVE StrLess(_, _)
StrLess(a, b) ==
    IF a = <<>> THEN b # <<>>
    ELSE IF b = <<>> THEN FALSE
    ELSE IF a[1] = b[1] THEN StrLess(Tail(a), Tail(b))
    ELSE CodePoint(a[1]) < CodePoint(b[1])

\* sorted(xs)[0] for a non-empty list of str.
SortedFirst(xs) ==
    CHOOSE x \in Range(xs) : \A y \in Range(xs) : x = y \/ StrLess(x, y)

\* os.path.basename(path)
Basename(path) == SplitLast(path, <<"/">>)

\* The concatenation of a sequence of strings.
RECURSIVE Concat(_)
Concat(parts) == IF parts = <<>> THEN <<>> ELSE parts[1] \o Concat(Tail(parts))

\* The sequences of pairwise distinct elements of S of length at most n.
DistinctSeqs(S, n) ==
    UNION { { s \in [1..k -> S] : \A a, b \in 1..k : a # b => s[a] # s[b] } : k \in 0..n }

None == <<>>

Some(x) == <<x>>


---------------------------------------------------------------------------
(* String literals of the script.                                          *)

QUANTIZATION == <<"Q","4","_","K","_","M">>

GgufExt == <<".","g","g","u","f">>

FallbackPatterns == << <<"Q","4","_","0">>, <<"Q","4","_","K">>, <<"Q","3","_","K">>,
                       <<"Q","5","_","K">>, <<"Q","2","_","K">>, <<"Q","8","_","0">> >>

LargeMarkers == << <<"7","0","b">>, <<"3","0","b">>, <<"4","0","b">>,
                   <<"6","5","b">>, <<"1","3","b">> >>

SmallMarkers == << <<"1","b">>, <<"2","b">>, <<"3","b">>,
                   <<"5","b">>, <<"7","b">>, <<"8","b">> >>

Llama == <<"l","l","a","m","a">>

Mistral == <<"m","i","s","t","r","a","l">>

DashGguf == <<"-","g","g","u","f">>

Gpt35 == <<"g","p","t","-","3",".","5","-","t","u","r","b","o">>

Gpt4 == <<"g","p","t","-","4">>

SmallAliasPatterns == << <<"p","h","i">>, <<"g","e","m","m","a","-","2">>, Mistral,
                         <<"l","l","a","m","a","-","3","-","1","b">> >>

LargeAliasPatterns == << <<"l","l","a","m","a","-","3","-","8">>,
                         <<"m","i","s","t","r","a","l","-","7">>,
                         <<"l","l","a","m","a","-","3",".","1","-","8">> >>

NameKey == <<"n","a","m","e",":"," ">>

ModelKey == <<" "," ","m","o","d","e","l",":"," ","/","m","o","d","e","l","s","/">>

Context2048 == <<"c","o","n","t","e","x","t","_","s","i","z","e",":"," ","2","0","4","8">>

Context4096 == <<"c","o","n","t","e","x","t","_","s","i","z","e",":"," ","4","0","9","6">>

---------------------------------------------------------------------------
(* find_best_gguf_file.  A listing is [ok |-> FALSE] when list_repo_files  *)
(* raises, else [ok |-> TRUE, files |-> the list it returns].              *)

\* [f for f in files if f.endswith(".gguf") and "Q4_K_M" in f]
Q4Files(files) == SelectSeq(files, LAMBDA f : EndsWith(f, GgufExt) /\ Contains(f, QUANTIZATION))

\* [f for f in files if f.endswith(".gguf")]
GgufFiles(files) == SelectSeq(files, LAMBDA f : EndsWith(f, GgufExt))

\* The for loop over the fallback patterns, from pattern k on.
RECURSIVE FallbackFrom(_, _)
FallbackFrom(gguf_files, k) ==
    IF k > Len(FallbackPatterns) THEN Some(SortedFirst(gguf_files))
    ELSE LET matches == SelectSeq(gguf_files, LAMBDA f : Contains(f, FallbackPatterns[k]))
         IN IF matches # <<>> THEN Some(SortedFirst(matches))
            ELSE FallbackFrom(gguf_files, k + 1)

\* A slip of find_best_gguf_file: the first Q4_K_M file as listed, not sorted.
find_best_unsorted(listing) ==
    IF ~listing.ok THEN None
    ELSE IF Q4Files(listing.files) # <<>> THEN Some(Q4Files(listing.files)[1])
    ELSE IF GgufFiles(listing.files) # <<>> THEN FallbackFrom(GgufFiles(listing.files), 1)
    ELSE None

find_best_gguf_file(listing) ==
    IF ~listing.ok THEN None
    ELSE IF Q4Files(listing.files) # <<>> THEN Some(SortedFirst(Q4Files(listing.files)))
    ELSE IF GgufFiles(listing.files) # <<>> THEN FallbackFrom(GgufFiles(listing.files), 1)
    ELSE None

---------------------------------------------------------------------------
(* The local model name main() derives from a model id.                    *)

\* model.id.split('/')[-1].lower()
RepoSegment(id) == Lower(SplitLast(id, <<"/">>))

\* The llama / mistral prefix rewrite.
FamilyRewrite(name) ==
    IF Contains(name, Llama) THEN Llama \o <<"-">> \o SplitLast(name, Llama)
    ELSE IF Contains(name, Mistral) THEN Mistral \o <<"-">> \o SplitLast(name, Mistral)
    ELSE name

\* A slip of StripGguf: only a trailing -gguf is removed.
StripTrailingGguf(name) ==
    IF EndsWith(name, DashGguf) THEN SubSeq(name, 1, Len(name) - Len(DashGguf)) ELSE name

\* model_name.replace('-gguf', '')
StripGguf(name) == Replace(name, DashGguf, <<>>)

\* ''.join(c if c.isalnum() or c in ['-', '_'] else '-' for c in model_name)
RECURSIVE CleanChars(_)
CleanChars(name) ==
    IF name = <<>> THEN <<>>
    ELSE <<IF IsAlnum(name[1]) \/ name[1] \in {"-", "_"} THEN name[1] ELSE "-">>
         \o CleanChars(Tail(name))

\* model_name.strip('-_')
TrimName(name) == Strip(name, {"-", "_"})

ModelName(id) == TrimName(CleanChars(StripGguf(FamilyRewrite(RepoSegment(id)))))

---------------------------------------------------------------------------
(* The resolver on its own: every listing of at most MaxFiles files of the *)
(* pool, in every order, and the failing listing call.                     *)

\* Repository files: two Q4_K_M files, a Q4_K_M file that is no .gguf, one
\* file per fallback pattern (named so that name order and priority differ),
\* two unquantized .gguf files and a file that is no model at all.
FilePool == { <<"b","Q","4","_","K","_","M",".","g","g","u","f">>,
              <<"a","Q","4","_","K","_","M",".","g","g","u","f">>,
              <<"Q","4","_","K","_","M",".","b","i","n">>,
              <<"m","Q","4","_","0",".","g","g","u","f">>,
              <<"m","Q","4","_","K","_","S",".","g","g","u","f">>,
              <<"m","Q","3","_","K",".","g","g","u","f">>,
              <<"k","Q","5","_","K",".","g","g","u","f">>,
              <<"j","Q","2","_","K",".","g","g","u","f">>,
              <<"a","Q","8","_","0",".","g","g","u","f">>,
              <<"z",".","g","g","u","f">>,
              <<"Z",".","g","g","u","f">>,
              <<"R","E","A","D","M","E",".","m","d">> }

ListingInputs ==
    { [ok |-> FALSE, files |-> <<>>] }
        \cup { [ok |-> TRUE, files |-> fs] : fs \in DistinctSeqs(FilePool, MaxFiles) }

\* The variables of main()'s run, unused while one function is exercised.
MainIdle ==
    /\ args = [num_models |-> 0, small_only |-> FALSE, categories |-> <<>>,
               create_aliases |-> FALSE, list_only |-> FALSE]
    /\ hub = <<>>
    /\ models = <<>>
    /\ i = 1
    /\ downloaded_model_names = <<>>
    /\ config = <<>>
    /\ store = {}
    /\ effects = <<>>

mainVars == <<args, hub, models, i, downloaded_model_names, config, store, effects>>

InitResolver ==
    /\ pc = "resolve"
    /\ fn_in \in ListingInputs
    /\ fn_out = <<>>
    /\ MainIdle

\* file_name = find_best_gguf_file(model.id)
Resolve ==
    /\ pc = "resolve"
    /\ fn_out' = <<find_best_gguf_file(fn_in)>>
    /\ pc' = "resolved"
    /\ UNCHANGED <<fn_in, mainVars>>

NextResolver == Resolve

SpecResolver == InitResolver /\ [][NextResolver]_vars

---------------------------------------------------------------------------
(* The name normalisation on its own: ids glued from at most MaxTokens     *)
(* tokens, normalised, and the result normalised again.                    *)

TokenPool == { <<"-","g","g","u","f">>,
               <<"l","l","a","m","a">>,
               <<"m","i","s","t","r","a","l">>,
               <<"-","g">>,
               <<"g","u","f">>,
               <<"f","o","o">>,
               <<".">>,
               <<"-">>,
               <<"X">>,
               <<"_">>,
               <<"3","-","8","b">>,
               <<"a","/">> }

NameInputs == { Concat(ts) : ts \in UNION { [1..k -> TokenPool] : k \in 1..MaxTokens } }

InitNormalizer ==
    /\ pc = "normalize"
    /\ fn_in \in NameInputs
    /\ fn_out = <<>>
    /\ MainIdle

\* model_name as main() computes it from model.id
Normalize ==
    /\ pc = "normalize"
    /\ fn_out' = <<ModelName(fn_in)>>
    /\ pc' = "normalized"
    /\ UNCHANGED <<fn_in, mainVars>>

\* The same computation on the name it produced.
NormalizeAgain ==
    /\ pc = "normalized"
    /\ fn_out' = Append(fn_out, ModelName(fn_out[1]))
    /\ pc' = "renormalized"
    /\ UNCHANGED <<fn_in, mainVars>>

NextNormalizer == Normalize \/ NormalizeAgain

SpecNormalizer == InitNormalizer /\ [][NextNormalizer]_vars

---------------------------------------------------------------------------
(* Claims about the resolver (under SpecResolver).                         *)

\* x is the lexicographically first element of the set S.
LexFirstOf(S, x) == x \in S /\ \A y \in S : x = y \/ StrLess(x, y)

\* The .gguf files of the listing under test.
ListedGguf == IF fn_in.ok THEN { f \in Range(fn_in.files) : EndsWith(f, GgufExt) } ELSE {}

ListedWith(pattern) == { f \in ListedGguf : Contains(f, pattern) }

\* C3: find_best_gguf_file returns a .gguf file of the listing chosen by
\* strict priority: the lexicographically first .gguf file containing Q4_K_M
\* if there is one; otherwise the lexicographically first .gguf file
\* containing the first fallback pattern (Q4_0, Q4_K, Q3_K, Q5_K, Q2_K, Q8_0)
\* that matches any; otherwise the lexicographically first .gguf file; and
\* it returns None exactly when the listing has no .gguf file or the
\* listing call failed.
C3_ResolverPriority ==
    pc = "resolved" =>
        LET r == fn_out[1]
            matching == { k \in DOMAIN FallbackPatterns : ListedWith(FallbackPatterns[k]) # {} }
        IN /\ (r = None) <=> (ListedGguf = {})
           /\ r # None => r[1] \in Range(fn_in.files) /\ EndsWith(r[1], GgufExt)
           /\ ListedWith(QUANTIZATION) # {} =>
                  r # None /\ LexFirstOf(ListedWith(QUANTIZATION), r[1])
           /\ (ListedWith(QUANTIZATION) = {} /\ matching # {}) =>
                  LET k0 == CHOOSE k \in matching : \A h \in matching : k <= h
                  IN r # None /\ LexFirstOf(ListedWith(FallbackPatterns[k0]), r[1])
           /\ (ListedWith(QUANTIZATION) = {} /\ matching = {} /\ ListedGguf # {}) =>
                  r # None /\ LexFirstOf(ListedGguf, r[1])

\* A listing without Q4_K_M file whose chosen file is not the first by name:
\* the fallback order, not the name order, decided.
C3_Witness ==
    /\ pc = "resolved"
    /\ fn_out[1] # None
    /\ ListedWith(QUANTIZATION) = {}
    /\ \E g \in ListedGguf : StrLess(g, fn_out[1][1])

---------------------------------------------------------------------------
(* Claims about the name normalisation (under SpecNormalizer).             *)

Llama38b == <<"l","l","a","m","a","-","3","-","8","b">>

\* C4: the normalisation is idempotent on names it has produced (applying
\* it to its own result yields the same name), and normalising
\* "llama-3-8b" yields "llama-3-8b".
C4_Idempotent ==
    /\ pc = "renormalized" => fn_out[2] = fn_out[1]
    /\ (pc # "normalize" /\ fn_in = Llama38b) => fn_out[1] = Llama38b

\* The positions at which -gguf occurs in s.
GgufAt(s) == { k \in 1..(Len(s) - Len(DashGguf) + 1) :
                   SubSeq(s, k, k + Len(DashGguf) - 1) = DashGguf }

\* C10 as stated: a -gguf that occurs only in a non-trailing position of the
\* lower-cased repo segment is still in the normalised name.
C10_OnlyTrailingRemoved ==
    (/\ pc # "normalize"
     /\ GgufAt(RepoSegment(fn_in)) # {}
     /\ ~EndsWith(RepoSegment(fn_in), DashGguf))
        => Contains(fn_out[1], DashGguf)

\* The lower-cased repo segment has no llama / mistral rewrite and holds
\* -gguf exactly once.
OneGguf == LET seg == RepoSegment(fn_in)
           IN /\ ~Contains(seg, Llama)
              /\ ~Contains(seg, Mistral)
              /\ Cardinality(GgufAt(seg)) = 1

\* C10 amended: -gguf is removed wherever it occurs, trailing or not: for a
\* lower-cased repo segment without llama or mistral in which -gguf occurs
\* exactly once, at any position, the normalised name is the segment with
\* that occurrence cut out, then character-replaced and trimmed.
C10_RemovedAnywhere ==
    (pc # "normalize" /\ OneGguf) =>
        LET seg == RepoSegment(fn_in)
            k == CHOOSE j \in GgufAt(seg) : TRUE
        IN fn_out[1] = TrimName(CleanChars(SubSeq(seg, 1, k - 1) \o From(seg, k + Len(DashGguf))))

\* A segment with one -gguf in the middle, removed from a name that stays
\* non-empty on both sides of it.
C10_Witness ==
    /\ pc = "normalized"
    /\ OneGguf
    /\ LET seg == RepoSegment(fn_in)
           k == CHOOSE j \in GgufAt(seg) : TRUE
       IN /\ k > 1
          /\ k + Len(DashGguf) <= Len(seg)
          /\ IsAlnum(seg[1])
          /\ IsAlnum(seg[Len(seg)])
          /\ Len(fn_out[1]) = Len(seg) - Len(DashGguf)

---------------------------------------------------------------------------
(* get_trending_gguf_models: the filter loop over the hub's answer.        *)

\* any(cat.lower() in model.id.lower() for cat in categories), or no categories
CategoryOk(id, categories) ==
    categories = <<>> \/ \E k \in DOMAIN categories : Contains(Lower(id), Lower(categories[k]))

\* A slip of SizeOk: the large markers are not checked.
SizeOkSmallOnly(id) == ContainsAny(Lower(id), SmallMarkers)

\* The small_only test: no large marker, and then at least one small marker.
SizeOk(id) ==
    /\ ~ContainsAny(Lower(id), LargeMarkers)
    /\ ContainsAny(Lower(id), SmallMarkers)

\* The for loop from position k on, with its append and its break.
RECURSIVE ScanFrom(_, _, _, _, _, _)
ScanFrom(all, k, filtered, max_models, small_only, categories) ==
    IF k > Len(all) THEN filtered
    ELSE IF ~CategoryOk(all[k].id, categories)
         THEN ScanFrom(all, k + 1, filtered, max_models, small_only, categories)
    ELSE IF small_only /\ ~SizeOk(all[k].id)
         THEN ScanFrom(all, k + 1, filtered, max_models, small_only, categories)
    ELSE LET appended == Append(filtered, all[k])
         IN IF Len(appended) >= max_models THEN appended
            ELSE ScanFrom(all, k + 1, appended, max_models, small_only, categories)

get_trending_gguf_models(all, max_models, small_only, categories) ==
    ScanFrom(all, 1, <<>>, max_models, small_only, categories)

---------------------------------------------------------------------------
(* create_model_config, download_model and create_openai_aliases.  The     *)
(* config directory is a function from file stems (<stem>.yaml) to file    *)
(* contents; of the file's lines the model keeps the name, model and       *)
(* context_size lines, the only ones a replace of the alias step can hit.  *)

NewLine == <<"\n">>

\* A slip of ConfigContent: the name line carries the file name.
ConfigContentFileName(model_name, model_file) ==
    NameKey \o model_file \o NewLine
      \o ModelKey \o model_file \o NewLine
      \o <<" ", " ">> \o Context2048 \o NewLine

\* config_content
ConfigContent(model_name, model_file) ==
    NameKey \o model_name \o NewLine
      \o ModelKey \o model_file \o NewLine
      \o <<" ", " ">> \o Context2048 \o NewLine

\* open(path, "w").write(text) on <config_dir>/<stem>.yaml
WriteFile(dir, stem, text) ==
    [s \in DOMAIN dir \cup {stem} |-> IF s = stem THEN text ELSE dir[s]]

\* One external effect of the run: a hub call, a download or a file write.
Effect(op, id, file, files, text, ok) ==
    [op |-> op, id |-> id, file |-> file, files |-> files, text |-> text, ok |-> ok]

\* A slip of download_model: the destination is returned after a failed download too.
download_model_always(exists, cli_ok) == TRUE

\* Whether download_model returns a path: the destination exists already, or
\* huggingface-cli ends with status 0.
download_model(exists, cli_ok) == exists \/ cli_ok

\* A slip of MatchingModels: every downloaded model is taken as a match.
AllModels(names, patterns) == names

\* [m for m in downloaded_models if any(x in m.lower() for x in patterns)]
MatchingModels(names, patterns) ==
    SelectSeq(names, LAMBDA m : ContainsAny(Lower(m), patterns))

\* One alias slot of create_openai_aliases: the directory after it and the
\* write it made, if any.
AliasSlot(dir, names, patterns, alias, widen) ==
    LET matches == MatchingModels(names, patterns)
    IN IF matches = <<>> \/ matches[1] \notin DOMAIN dir
       THEN [config |-> dir, written |-> <<>>]
       ELSE LET renamed == Replace(dir[matches[1]], NameKey \o matches[1], NameKey \o alias)
                text == IF widen THEN Replace(renamed, Context2048, Context4096) ELSE renamed
            IN [config |-> WriteFile(dir, alias, text),
                written |-> <<Effect("write_alias", matches[1], alias, <<>>, text, TRUE)>>]

create_openai_aliases(dir, names) ==
    IF names = <<>> THEN [config |-> dir, written |-> <<>>]
    ELSE LET small == AliasSlot(dir, names, SmallAliasPatterns, Gpt35, FALSE)
             large == AliasSlot(small.config, names, LargeAliasPatterns, Gpt4, TRUE)
         IN [config |-> large.config, written |-> small.written \o large.written]

---------------------------------------------------------------------------
(* The run of main().                                                      *)

\* Hub ids: a llama model with a small marker, two phi repositories whose
\* names differ in case only, a mistral model with a large and a small
\* marker, and a model outside both alias families.
IdPool == { <<"a","/","L","l","a","m","a","3","-","8","B">>,
            <<"b","/","P","h","i","-","2","-","G","G","U","F">>,
            <<"c","/","p","h","i","-","2","-","g","g","u","f">>,
            <<"d","/","M","i","s","t","r","a","l","7","b","-","1","3","B">>,
            <<"e","/","Q","w","e","n",".","1","b">> }

\* api.list_models(..., sort="downloads", direction=-1): distinct ids, most
\* downloaded first.
Hubs == { [k \in 1..Len(ids) |-> [id |-> ids[k], downloads |-> Len(ids) - k]] :
              ids \in DistinctSeqs(IdPool, MaxHub) }

\* --include-categories: absent, or "LLAMA,Phi"
CategoryChoices == { <<>>, << <<"L","L","A","M","A">>, <<"P","h","i">> >> }

Args == [num_models : 0..MaxNumModels, small_only : BOOLEAN,
         categories : CategoryChoices, create_aliases : BOOLEAN, list_only : BOOLEAN]

\* What api.list_repo_files can answer: an error, a repository without model
\* file, one with a Q8_0 and a Q4_K_M file, one with a file in a folder.
ListingPool ==
    { [ok |-> FALSE, files |-> <<>>],
      [ok |-> TRUE, files |-> << <<"R","E","A","D","M","E",".","m","d">> >>],
      [ok |-> TRUE, files |-> << <<"a","Q","8","_","0",".","g","g","u","f">>, <<"b","Q","4","_","K","_","M",".","g","g","u","f">> >>],
      [ok |-> TRUE, files |-> << <<"s","u","b","/","w",".","g","g","u","f">> >>] }

\* The config directory before the run: it holds the gpt-4.yaml an earlier
\* run left there.
StaleConfig == ConfigContent(<<"o","l","d">>, <<"o","l","d",".","g","g","u","f">>)

InitialConfig == WriteFile(<<>>, Gpt4, StaleConfig)

Init ==
    /\ pc = "start"
    /\ args \in Args
    /\ hub \in Hubs
    /\ models = <<>>
    /\ i = 1
    /\ downloaded_model_names = <<>>
    /\ config = InitialConfig
    /\ store = {}
    /\ effects = <<>>
    /\ fn_in = <<>>
    /\ fn_out = <<>>

\* models = get_trending_gguf_models(...), and the printed list
Query ==
    /\ pc = "start"
    /\ models' = get_trending_gguf_models(hub, args.num_models, args.small_only,
                                          args.categories)
    /\ effects' = Append(effects, Effect("list_models", <<>>, <<>>, <<>>, <<>>, TRUE))
    /\ pc' = "listed"
    /\ UNCHANGED <<args, hub, i, downloaded_model_names, config, store, fn_in, fn_out>>

\* A slip of ExitsAfterListing: --list-only is ignored.
ExitsNever(a) == FALSE

\* if args.list_only: return
ExitsAfterListing(a) == a.list_only

ListOnlyExit ==
    /\ pc = "listed"
    /\ ExitsAfterListing(args)
    /\ pc' = "exit"
    /\ UNCHANGED <<args, hub, models, i, downloaded_model_names, config, store,
                   effects, fn_in, fn_out>>

\* downloaded_model_names = [], and the loop is entered
EnterLoop ==
    /\ pc = "listed"
    /\ ~ExitsAfterListing(args)
    /\ downloaded_model_names' = <<>>
    /\ i' = 1
    /\ pc' = "loop"
    /\ UNCHANGED <<args, hub, models, config, store, effects, fn_in, fn_out>>

\* One pass of the loop body for models[i]: listing is what list_repo_files
\* answers, cli_ok whether huggingface-cli would end with status 0.
ProcessModel(listing, cli_ok) ==
    /\ pc = "loop"
    /\ i <= Len(models)
    /\ LET model == models[i]
           file_name == find_best_gguf_file(listing)
           listed == Effect("list_repo_files", model.id, <<>>, listing.files, <<>>, listing.ok)
       IN IF file_name = None
          THEN \* "No suitable GGUF file found", continue
               /\ effects' = Append(effects, listed)
               /\ UNCHANGED <<downloaded_model_names, config, store>>
          ELSE LET model_name == ModelName(model.id)
                   exists == Basename(file_name[1]) \in store
                   fetched == Effect("download", model.id, file_name[1], <<>>, <<>>, cli_ok)
                   tried == IF exists THEN <<listed>> ELSE <<listed, fetched>>
               IN IF ~download_model(exists, cli_ok)
                  THEN \* download_model returned None, continue
                       /\ effects' = effects \o tried
                       /\ UNCHANGED <<downloaded_model_names, config, store>>
                  ELSE LET model_file == Basename(file_name[1])
                           text == ConfigContent(model_name, model_file)
                       IN /\ store' = IF exists \/ ~cli_ok THEN store
                                      ELSE store \cup {file_name[1]}
                          /\ config' = WriteFile(config, model_name, text)
                          /\ downloaded_model_names' = Append(downloaded_model_names, model_name)
                          /\ effects' = effects \o tried
                                \o <<Effect("write_config", model.id, model_name, <<>>, text, TRUE)>>
    /\ i' = i + 1
    /\ UNCHANGED <<pc, args, hub, models, fn_in, fn_out>>

\* The loop is over, aliases are asked for and something was downloaded:
\* create_openai_aliases(args.config_dir, downloaded_model_names), then the
\* summary is printed and main() returns.
FinishWithAliases ==
    /\ pc = "loop"
    /\ i > Len(models)
    /\ args.create_aliases /\ downloaded_model_names # <<>>
    /\ LET done == create_openai_aliases(config, downloaded_model_names)
       IN /\ config' = done.config
          /\ effects' = effects \o done.written
    /\ pc' = "done"
    /\ UNCHANGED <<args, hub, models, i, downloaded_model_names, store, fn_in, fn_out>>

\* The loop is over and the alias step is skipped: the summary is printed
\* and main() returns.
Finish ==
    /\ pc = "loop"
    /\ i > Len(models)
    /\ ~(args.create_aliases /\ downloaded_model_names # <<>>)
    /\ pc' = "done"
    /\ UNCHANGED <<args, hub, models, i, downloaded_model_names, config, store,
                   effects, fn_in, fn_out>>

Next ==
    \/ Query
    \/ ListOnlyExit
    \/ EnterLoop
    \/ \E listing \in ListingPool, cli_ok \in BOOLEAN : ProcessModel(listing, cli_ok)
    \/ FinishWithAliases
    \/ Finish

Spec == Init /\ [][Next]_vars

---------------------------------------------------------------------------
(* Claims about the run of main() (under Spec).                            *)

\* a is b with some elements left out, the others in b's order.
RECURSIVE IsSubsequence(_, _)
IsSubsequence(a, b) ==
    IF a = <<>> THEN TRUE
    ELSE IF b = <<>> THEN FALSE
    ELSE IF a[1] = b[1] THEN IsSubsequence(Tail(a), Tail(b))
    ELSE IsSubsequence(a, Tail(b))

\* C1: the filter's result has at most max_models elements (max_models = 0
\* included) and is a subsequence of the hub's answer in the hub's order.
C1_FilterBounded ==
    pc # "start" =>
        /\ Len(models) <= args.num_models
        /\ IsSubsequence(models, hub)

\* C2: with small_only, every returned id (lower-cased) contains no large
\* marker, whatever small marker it also contains, and at least one small
\* marker.
C2_SmallOnly ==
    (pc # "start" /\ args.small_only) =>
        \A k \in DOMAIN models :
            LET id == Lower(models[k].id)
            IN /\ \A j \in DOMAIN LargeMarkers : ~Contains(id, LargeMarkers[j])
               /\ \E j \in DOMAIN SmallMarkers : Contains(id, SmallMarkers[j])

\* small_only kept one model and dropped one whose id holds a large and a
\* small marker.
C2_Witness ==
    /\ pc = "listed"
    /\ args.small_only
    /\ models # <<>>
    /\ \E k \in DOMAIN hub :
           /\ \E j \in DOMAIN LargeMarkers : Contains(Lower(hub[k].id), LargeMarkers[j])
           /\ \E j \in DOMAIN SmallMarkers : Contains(Lower(hub[k].id), SmallMarkers[j])
           /\ \A m \in DOMAIN models : models[m] # hub[k]

\* The list_repo_files calls of the run, in order.
ListCalls == SelectSeq(effects, LAMBDA e : e.op = "list_repo_files")

\* The config files create_model_config wrote, in order.
ConfigWrites == SelectSeq(effects, LAMBDA e : e.op = "write_config")

\* The alias files create_openai_aliases wrote under the stem alias, in order.
AliasWrites(alias) == SelectSeq(effects, LAMBDA e : e.op = "write_alias" /\ e.file = alias)

\* The listing call e found a file: it did not fail and listed a .gguf file.
FileResolved(e) == e.ok /\ \E f \in Range(e.files) : EndsWith(f, GgufExt)

\* huggingface-cli was run for id and failed.
DownloadFailed(id) ==
    \E k \in DOMAIN effects :
        effects[k].op = "download" /\ effects[k].id = id /\ ~effects[k].ok

\* The listing calls of the candidates whose resolution and download both succeeded.
Succeeded == SelectSeq(ListCalls, LAMBDA e : FileResolved(e) /\ ~DownloadFailed(e.id))

\* The guard of some step of main() holds.
StepPossible ==
    \/ pc \in {"start", "listed"}
    \/ pc = "loop" /\ (i <= Len(models) \/ i > Len(models))

\* C5: whatever the per-model outcomes, the run lists the files of every
\* candidate, in candidate order, one candidate per pass of the loop, and
\* goes on to the summary (until main() has returned, a step is possible);
\* a config file is written and a name recorded for exactly the candidates
\* whose file resolution and download both succeeded, in candidate order.
C5_FailuresAreLocal ==
    /\ pc = "loop" =>
           /\ i \in 1..(Len(models) + 1)
           /\ Len(ListCalls) = i - 1
           /\ \A k \in DOMAIN ListCalls : ListCalls[k].id = models[k].id
    /\ pc = "done" =>
           /\ Len(ListCalls) = Len(models)
           /\ \A k \in DOMAIN models : ListCalls[k].id = models[k].id
           /\ Len(downloaded_model_names) = Len(Succeeded)
           /\ Len(ConfigWrites) = Len(Succeeded)
           /\ \A k \in DOMAIN Succeeded :
                  /\ downloaded_model_names[k] = ModelName(Succeeded[k].id)
                  /\ ConfigWrites[k].id = Succeeded[k].id
                  /\ ConfigWrites[k].file = downloaded_model_names[k]
                  /\ downloaded_model_names[k] \in DOMAIN config
    /\ pc \notin {"exit", "done"} => StepPossible

\* A finished run whose first candidate failed to download and whose second
\* candidate was downloaded and configured.
C5_Witness ==
    /\ pc = "done"
    /\ Len(models) >= 2
    /\ DownloadFailed(models[1].id)
    /\ Len(Succeeded) >= 1
    /\ Succeeded[1].id = models[2].id
    /\ Len(downloaded_model_names) = 1

\* C6: the names recorded in one run are pairwise distinct, so no config
\* file written in the run is overwritten by a later model of the run.
C6_DistinctNames ==
    \A a, b \in DOMAIN downloaded_model_names :
        a # b => downloaded_model_names[a] # downloaded_model_names[b]

\* The lines of a text.
RECURSIVE Lines(_)
Lines(text) ==
    IF ~Contains(text, NewLine) THEN <<text>>
    ELSE LET k == CHOOSE j \in DOMAIN text : text[j] = "\n" /\ \A h \in 1..(j - 1) : text[h] # "\n"
         IN <<SubSeq(text, 1, k - 1)>> \o Lines(From(text, k + 1))

\* The values of the name lines of a config text.
DeclaredNames(text) ==
    LET named == SelectSeq(Lines(text), LAMBDA l : StartsWith(l, NameKey))
    IN [k \in DOMAIN named |-> From(named[k], Len(NameKey) + 1)]

\* C7: every config file written in a run, by create_model_config or as an
\* alias by create_openai_aliases, declares one name, equal to the stem of
\* the file it is written to.
C7_NameMatchesStem ==
    \A k \in DOMAIN effects :
        effects[k].op \in {"write_config", "write_alias"} =>
            DeclaredNames(effects[k].text) = <<effects[k].file>>

\* A finished run that wrote a model config and both alias files.
C7_Witness ==
    /\ pc = "done"
    /\ ConfigWrites # <<>>
    /\ AliasWrites(Gpt35) # <<>>
    /\ AliasWrites(Gpt4) # <<>>

\* The first downloaded name that contains one of the patterns, if any.
FirstMatching(patterns) ==
    LET hits == { k \in DOMAIN downloaded_model_names :
                      \E j \in DOMAIN patterns :
                          Contains(Lower(downloaded_model_names[k]), patterns[j]) }
    IN IF hits = {} THEN None
       ELSE Some(downloaded_model_names[CHOOSE k \in hits : \A h \in hits : k <= h])

AliasSlots == { <<Gpt35, SmallAliasPatterns>>, <<Gpt4, LargeAliasPatterns>> }

\* C8: create_openai_aliases writes gpt-3.5-turbo.yaml only if a downloaded
\* name contains phi, gemma-2, mistral or llama-3-1b, and gpt-4.yaml only if
\* one contains llama-3-8, mistral-7 or llama-3.1-8; the source of a written
\* alias is the first matching name in download order.
C8_AliasOnlyOnMatch ==
    /\ \A k \in DOMAIN effects :
           effects[k].op = "write_alias" => effects[k].file \in {Gpt35, Gpt4}
    /\ \A slot \in AliasSlots :
           \A k \in DOMAIN AliasWrites(slot[1]) :
               /\ FirstMatching(slot[2]) # None
               /\ AliasWrites(slot[1])[k].id = FirstMatching(slot[2])[1]

\* A finished run with aliases asked for: gpt-4.yaml was written from the
\* second downloaded name, the first not matching, and no gpt-3.5-turbo.yaml.
C8_Witness ==
    /\ pc = "done"
    /\ args.create_aliases
    /\ Len(downloaded_model_names) >= 2
    /\ AliasWrites(Gpt35) = <<>>
    /\ AliasWrites(Gpt4) # <<>>
    /\ AliasWrites(Gpt4)[1].id = downloaded_model_names[2]

\* C9: with --list-only the run ends after the list is printed: no file
\* listing is asked for, nothing is downloaded and no config or alias file
\* is created or changed, whatever the other flags.
C9_ListOnlyNoEffects ==
    args.list_only =>
        /\ pc \in {"start", "listed", "exit"}
        /\ config = InitialConfig
        /\ store = {}
        /\ downloaded_model_names = <<>>
        /\ \A k \in DOMAIN effects : effects[k].op = "list_models"

\* A list-only run that has returned, with candidates found and aliases asked for.
C9_Witness ==
    /\ pc = "exit"
    /\ args.list_only
    /\ args.create_aliases
    /\ models # <<>>

=============================================================================
